---- MODULE Spec2Model ----
(***************************************************************************)
(* Model of generateTerminalTextTable (src/lib/render/terminal.ts): the    *)
(* renderer that turns a gas-data snapshot and a resolved options object   *)
(* into the rows of a cli-table3 table.                                    *)
(*                                                                         *)
(* A table row is a sequence of cells [colSpan, content].  The content of  *)
(* a cell is a record [t, v, name]: t names the text or the formatter that *)
(* produced it, v holds its numbers and name holds a contract, method or   *)
(* signature name as a sequence of characters.  Alignment (hAlign) and the *)
(* chalk colour wrappers are presentation attributes and are left out.     *)
(*                                                                         *)
(* An optional value (number | undefined, record | null) is the empty      *)
(* sequence when it is absent and a one-element sequence when present.     *)
(***************************************************************************)
EXTENDS Integers, Sequences, FiniteSets, TLC

VARIABLES data, options, chalkLevel, methodRows, table

vars == <<data, options, chalkLevel, methodRows, table>>

(***************************************************************************)
(* Bounds of the model.                                                    *)
(***************************************************************************)
MaxMethods == 2

MaxDeployments == 3

MaxPrecision == 2

(***************************************************************************)
(* Optional values.                                                        *)
(***************************************************************************)
Undefined == <<>>

Some(x) == <<x>>

IsDefined(x) == Len(x) = 1

Get(x) == x[1]

Range(s) == {s[i] : i \in DOMAIN s}

(***************************************************************************)
(* String.prototype.localeCompare under the root collation, for names over *)
(* the characters an identifier or a signature is made of.  The comparison *)
(* is multi-level: the primary weights of the whole strings are compared   *)
(* first (punctuation < currency sign < digits < letters, case ignored),   *)
(* and only when they are equal the case of the letters decides (lower     *)
(* case before upper case).                                                *)
(***************************************************************************)
Alphabet == {"_", "(", ")", "$", "0", "1", "a", "A", "b", "B"}

PrimaryWeight(ch) ==
    CASE ch = "_" -> 1
      [] ch = "(" -> 2
      [] ch = ")" -> 3
      [] ch = "$" -> 4
      [] ch = "0" -> 5
      [] ch = "1" -> 6
      [] ch \in {"a", "A"} -> 7
      [] ch \in {"b", "B"} -> 8

TertiaryWeight(ch) == IF ch \in {"A", "B"} THEN 1 ELSE 0

RECURSIVE LexCompare(_, _)
LexCompare(s, t) ==
    IF s = <<>> /\ t = <<>> THEN 0
    ELSE IF s = <<>> THEN 0 - 1
    ELSE IF t = <<>> THEN 1
    ELSE IF Head(s) < Head(t) THEN 0 - 1
    ELSE IF Head(s) > Head(t) THEN 1
    ELSE LexCompare(Tail(s), Tail(t))

localeCompare(a, b) ==
    LET primary == LexCompare([i \in DOMAIN a |-> PrimaryWeight(a[i])],
                              [i \in DOMAIN b |-> PrimaryWeight(b[i])])
    IN  IF primary # 0 THEN primary
        ELSE LexCompare([i \in DOMAIN a |-> TertiaryWeight(a[i])],
                        [i \in DOMAIN b |-> TertiaryWeight(b[i])])

(***************************************************************************)
(* Cell contents.                                                          *)
(***************************************************************************)
Text(label) == [t |-> label, v |-> <<>>, name |-> <<>>]

NameText(label, n) == [t |-> label, v |-> <<>>, name |-> n]

Number(n) == [t |-> "number", v |-> <<n>>, name |-> <<>>]

\* chalk.grey("-")
Dash == Text("-")

\* a stats field that was never assigned
UndefinedContent == Text("undefined")

UNICODE_TRIANGLE == Text("UNICODE_TRIANGLE")

\* utils.commify: the decimal digits in groups of three, most significant first
RECURSIVE ThousandsGroups(_)
ThousandsGroups(n) ==
    IF n < 1000 THEN <<n>> ELSE Append(ThousandsGroups(n \div 1000), n % 1000)

commify(n) == [t |-> "commify", v |-> ThousandsGroups(n), name |-> <<>>]

\* `${deployment.percent} %`
PercentText(p) == [t |-> "percent", v |-> p, name |-> <<>>]

Cell(span, c) == [colSpan |-> span, content |-> c]

(***************************************************************************)
(* Column layout, decided once from options.L2 (terminal.ts lines 33-61).  *)
(***************************************************************************)
numberOfCols(opts) == IF opts.L2 THEN 8 ELSE 7

blockLimitColumnWidth(opts) == IF opts.L2 THEN 3 ELSE 2

deploymentsTitleSpacerWidth(opts) == IF opts.L2 THEN 3 ELSE 2

contractTitleSpacerWidthStandard(opts) == 5

contractTitleSpacerWidth(opts) == IF opts.L2 THEN 6 ELSE 5

executionGasAverageTitle(opts) == IF opts.L2 THEN "L2 Avg (Exec)" ELSE "Avg"

calldataGasAverageTitle(opts) == IF opts.L2 THEN "L1 Avg (Data)" ELSE ""

(***************************************************************************)
(* The process-wide colour level the call leaves behind (lines 42-46).     *)
(***************************************************************************)
ChalkLevelUnlessDisabled(opts, level) ==
    IF opts.noColors \/ opts.outputFile THEN 0 ELSE level

ChalkLevel(opts, level) == IF opts.noColors \/ opts.outputFile THEN 0 ELSE 1

(***************************************************************************)
(* Costs are fixed-point numbers: the integer c stands for the amount      *)
(* c * 10^-CostDigits, so that amounts below the smallest unit of every    *)
(* display precision exist.                                                *)
(***************************************************************************)
CostDigits == MaxPrecision + 1

RECURSIVE Pow10(_)
Pow10(n) == IF n = 0 THEN 1 ELSE 10 * Pow10(n - 1)

\* utils/ui getSmallestPrecisionVal: the smallest unit 10^-precision
getSmallestPrecisionVal(precision) == Pow10(CostDigits - precision)

\* the value is truthy: defined and not 0
Truthy(x) == IsDefined(x) /\ Get(x) # 0

(***************************************************************************)
(* Methods: section assembly (lines 69-144).                               *)
(***************************************************************************)
ContractNameSection(method, opts) ==
    [row |-> << Cell(2, NameText("contract", method.contract)),
                Cell(contractTitleSpacerWidth(opts), Text("")) >>,
     contractName |-> method.contract,
     methodName |-> <<"0">>]

\* stats.executionGasAverage (lines 92-103)
StatsExecutionGasAverage(method) ==
    IF Len(method.gasData) > 0
    THEN commify(Get(method.executionGasAverage))
    ELSE Dash

\* stats.calldataGasAverage (lines 96-98); unassigned when there is no call
StatsCalldataGasAverage(method) ==
    IF Len(method.gasData) > 0
    THEN IF IsDefined(method.calldataGasAverage)
         THEN commify(Get(method.calldataGasAverage))
         ELSE Text("")
    ELSE UndefinedContent

\* the precision floor (lines 105-108 and 159-162) applied to a numeric cost
BelowPrecisionInclusive(cost, opts) ==
    IF cost <= getSmallestPrecisionVal(opts.currencyDisplayPrecision)
    THEN UNICODE_TRIANGLE
    ELSE Number(cost)

BelowPrecision(cost, opts) ==
    IF cost < getSmallestPrecisionVal(opts.currencyDisplayPrecision)
    THEN UNICODE_TRIANGLE
    ELSE Number(cost)

\* stats.cost of a method (lines 92-108)
StatsCost(method, opts) ==
    IF Len(method.gasData) > 0
    THEN IF method.cost = Undefined
         THEN Dash
         ELSE BelowPrecision(Get(method.cost), opts)
    ELSE Dash

\* stats.min and stats.max (lines 110-114 and 168-172)
StatsMin(rec) ==
    IF Truthy(rec.min) /\ Truthy(rec.max)
    THEN IF rec.min = rec.max THEN Dash ELSE commify(Get(rec.min))
    ELSE UndefinedContent

StatsMax(rec) ==
    IF Truthy(rec.min) /\ Truthy(rec.max)
    THEN IF rec.min = rec.max THEN Dash ELSE commify(Get(rec.max))
    ELSE UndefinedContent

\* line 116
fnName(method, opts) == IF opts.showMethodSig THEN method.fnSig ELSE method.method

\* the condition of line 118
EmitsMethodRowOnlyIfCalled(method, opts) == method.numberOfCalls > 0

EmitsMethodRow(method, opts) ==
    opts.showUncalledMethods \/ method.numberOfCalls > 0

\* lines 119-140
MethodSection(method, opts) ==
    [row |-> << Cell(2, NameText("method", fnName(method, opts))),
                Cell(1, StatsMin(method)),
                Cell(1, StatsMax(method)),
                Cell(1, StatsExecutionGasAverage(method)) >>
             \o (IF opts.L2 THEN << Cell(1, StatsCalldataGasAverage(method)) >>
                 ELSE << >>)
             \o << Cell(1, Number(method.numberOfCalls)),
                   Cell(1, StatsCost(method, opts)) >>,
     contractName |-> method.contract,
     methodName |-> fnName(method, opts)]

\* _.forEach(data.methods, ...) from record i on (lines 72-144)
RECURSIVE MethodSectionsFrom(_, _, _, _, _)
MethodSectionsFrom(methods, i, addedContracts, rows, opts) ==
    IF i > Len(methods) THEN rows
    ELSE IF methods[i] = Undefined
    THEN MethodSectionsFrom(methods, i + 1, addedContracts, rows, opts)
    ELSE LET method == Get(methods[i])
             header == /\ method.contract \notin addedContracts
                       /\ Len(method.gasData) > 0
             rows1 == IF header
                      THEN Append(rows, ContractNameSection(method, opts))
                      ELSE rows
             rows2 == IF EmitsMethodRow(method, opts)
                      THEN Append(rows1, MethodSection(method, opts))
                      ELSE rows1
         IN  MethodSectionsFrom(methods, i + 1,
                 IF header THEN addedContracts \cup {method.contract}
                 ELSE addedContracts,
                 rows2, opts)

MethodSections(methods, opts) == MethodSectionsFrom(methods, 1, {}, <<>>, opts)

\* the comparator of methodRows.sort (lines 362-366)
CompareSectionsByContractOnly(a, b) == localeCompare(a.contractName, b.contractName)

CompareSections(a, b) ==
    LET contractName == localeCompare(a.contractName, b.contractName)
        methodName == localeCompare(a.methodName, b.methodName)
    IN  IF contractName # 0 THEN contractName ELSE methodName

\* Array.prototype.sort is stable: x goes after every element not greater
InsertSection(sorted, x) ==
    LET pos == Cardinality({i \in DOMAIN sorted : CompareSections(sorted[i], x) <= 0})
    IN  SubSeq(sorted, 1, pos) \o <<x>> \o SubSeq(sorted, pos + 1, Len(sorted))

RECURSIVE SortSections(_)
SortSections(s) ==
    IF s = <<>> THEN <<>>
    ELSE InsertSection(SortSections(SubSeq(s, 1, Len(s) - 1)), s[Len(s)])

(***************************************************************************)
(* Deployments: section assembly (lines 149-196).                          *)
(***************************************************************************)
\* the comparator of data.deployments.sort (line 151)
CompareDeploymentsReversed(a, b) == localeCompare(b.name, a.name)

CompareDeployments(a, b) == localeCompare(a.name, b.name)

InsertDeployment(sorted, x) ==
    LET pos == Cardinality({i \in DOMAIN sorted : CompareDeployments(sorted[i], x) <= 0})
    IN  SubSeq(sorted, 1, pos) \o <<x>> \o SubSeq(sorted, pos + 1, Len(sorted))

RECURSIVE SortDeployments(_)
SortDeployments(s) ==
    IF s = <<>> THEN <<>>
    ELSE InsertDeployment(SortDeployments(SubSeq(s, 1, Len(s) - 1)), s[Len(s)])

\* stats.cost of a deployment (lines 157-162)
DeploymentStatsCost(deployment, opts) ==
    IF deployment.cost = Undefined
    THEN Dash
    ELSE BelowPrecision(Get(deployment.cost), opts)

\* stats.calldataGasAverage of a deployment (lines 164-166)
DeploymentStatsCalldataGasAverage(deployment) ==
    IF deployment.calldataGasAverage = Undefined
    THEN Text("")
    ELSE commify(Get(deployment.calldataGasAverage))

\* lines 174-193
DeploymentSection(deployment, opts) ==
    << Cell(2, NameText("deployment", deployment.name)),
       Cell(1, StatsMin(deployment)),
       Cell(1, StatsMax(deployment)),
       Cell(1, commify(Get(deployment.executionGasAverage))) >>
    \o (IF opts.L2 THEN << Cell(1, DeploymentStatsCalldataGasAverage(deployment)) >>
        ELSE << >>)
    \o << Cell(1, PercentText(deployment.percent)),
          Cell(1, DeploymentStatsCost(deployment, opts)) >>

\* data.deployments.forEach(...) over the sorted records (lines 153-196)
RECURSIVE DeployRowsFrom(_, _, _, _)
DeployRowsFrom(deployments, i, rows, opts) ==
    IF i > Len(deployments) THEN rows
    ELSE IF Len(deployments[i].gasData) = 0
    THEN DeployRowsFrom(deployments, i + 1, rows, opts)
    ELSE DeployRowsFrom(deployments, i + 1,
             Append(rows, DeploymentSection(deployments[i], opts)), opts)

DeployRows(deployments, opts) == DeployRowsFrom(deployments, 1, <<>>, opts)

(***************************************************************************)
(* Headers: section assembly (lines 227-352).  The strings that come from  *)
(* getSolcInfo and getCommonTableVals are opaque and stand as their labels. *)
(***************************************************************************)
title(opts) == << Cell(numberOfCols(opts), Text("Solidity and Network Configuration")) >>

solcConfig(opts) ==
    << Cell(2, Text("Solidity: ")),
       Cell(1, Text("Optimizer: ")),
       Cell(1, Text("viaIR: ")),
       Cell(1, Text("Runs: ")),
       Cell(blockLimitColumnWidth(opts), Text("Block limit: ")) >>

networkConfig(opts) ==
    IF opts.tokenPrice /\ opts.gasPrice
    THEN << Cell(2, Text("Network: ")), Cell(2, Text("L1: ")) >>
         \o (IF opts.L2 THEN << Cell(2, Text("L2: ")) >>
             ELSE << Cell(1, Text(" ")) >>)
         \o << Cell(2, Text("rate currency/token")) >>
    ELSE << Cell(numberOfCols(opts), Text("Methods")) >>

methodsHeader(opts) ==
    << Cell(2, Text("Contracts / Methods")),
       Cell(1, Text("Min")),
       Cell(1, Text("Max")),
       Cell(1, Text(executionGasAverageTitle(opts))) >>
    \o (IF opts.L2 THEN << Cell(1, Text(calldataGasAverageTitle(opts))) >> ELSE << >>)
    \o << Cell(1, Text("# calls")), Cell(1, Text("currency (avg)")) >>

keyTitle(opts) == << Cell(numberOfCols(opts), Text("Key")) >>

keyCall(opts) == << Cell(numberOfCols(opts), Text("UNICODE_CIRCLE intrinsicMsg")) >>

keyAir(opts) == << Cell(numberOfCols(opts), Text("UNICODE_TRIANGLE nonZeroMsg")) >>

deploymentsSubtitle(opts) ==
    << Cell(3, Text("Deployments")),
       Cell(deploymentsTitleSpacerWidth(opts), Text("")),
       Cell(1, Text("% of limit")),
       Cell(1, Text("")) >>

(***************************************************************************)
(* Final table assembly (lines 357-389).                                   *)
(***************************************************************************)
\* the deployments block, lines 372-385
DeploymentsBlockAlways(deployRows, opts) == << deploymentsSubtitle(opts) >> \o deployRows

DeploymentsBlock(deployRows, opts) ==
    IF Len(deployRows) # 0
    THEN << deploymentsSubtitle(opts) >> \o deployRows
    ELSE << >>

TableRows(sections, deployRows, opts) ==
    << title(opts), solcConfig(opts), networkConfig(opts), methodsHeader(opts) >>
    \o [i \in DOMAIN sections |-> sections[i].row]
    \o DeploymentsBlock(deployRows, opts)
    \o << keyTitle(opts), keyCall(opts), keyAir(opts) >>

(***************************************************************************)
(* One call of generateTerminalTextTable(hre, data, options).  The call    *)
(* sets the colour level, sorts data.deployments in place, and returns the *)
(* table; methodRows is the sorted section list the body rows come from.   *)
(***************************************************************************)
generateTerminalTextTable(opts) ==
    LET sortedDeployments == SortDeployments(data.deployments)
        sections == SortSections(MethodSections(data.methods, opts))
    IN  /\ chalkLevel' = ChalkLevel(opts, chalkLevel)
        /\ data' = [data EXCEPT !.deployments = sortedDeployments]
        /\ methodRows' = sections
        /\ table' = TableRows(sections, DeployRows(sortedDeployments, opts), opts)
        /\ options' = Some(opts)

(***************************************************************************)
(* Inputs.  A record of the snapshot is built from its per-call gas        *)
(* numbers, so that numberOfCalls = gasData.length and min, max, the       *)
(* averages and the cost are undefined exactly when there is no call.      *)
(***************************************************************************)
RECURSIVE SumOf(_)
SumOf(s) == IF s = <<>> THEN 0 ELSE Head(s) + SumOf(Tail(s))

MinOf(s) == CHOOSE x \in Range(s) : \A y \in Range(s) : x <= y

MaxOf(s) == CHOOSE x \in Range(s) : \A y \in Range(s) : x >= y

WhenCalled(gasData, x) == IF gasData = <<>> THEN Undefined ELSE x

Signature(method, args) == method \o <<"(">> \o args \o <<")">>

MethodDataItem(contract, method, args, gasData, calldata, cost) ==
    [contract |-> contract,
     method |-> method,
     fnSig |-> Signature(method, args),
     gasData |-> gasData,
     numberOfCalls |-> Len(gasData),
     min |-> WhenCalled(gasData, Some(MinOf(gasData))),
     max |-> WhenCalled(gasData, Some(MaxOf(gasData))),
     executionGasAverage |-> WhenCalled(gasData, Some(SumOf(gasData) \div Len(gasData))),
     calldataGasAverage |-> WhenCalled(gasData, calldata),
     cost |-> WhenCalled(gasData, cost)]

Deployment(name, gasData, calldata, cost) ==
    [name |-> name,
     gasData |-> gasData,
     min |-> WhenCalled(gasData, Some(MinOf(gasData))),
     max |-> WhenCalled(gasData, Some(MaxOf(gasData))),
     executionGasAverage |-> WhenCalled(gasData, Some(SumOf(gasData) \div Len(gasData))),
     calldataGasAverage |-> WhenCalled(gasData, calldata),
     cost |-> WhenCalled(gasData, cost),
     percent |-> WhenCalled(gasData, Some(1))]

SeqsUpTo(S, n) == UNION {[1 .. k -> S] : k \in 0 .. n}

\* one method record per contract and signature; null entries are allowed
MethodSeqs(records) ==
    {s \in SeqsUpTo(records \cup {Undefined}, MaxMethods) :
        \A i, j \in DOMAIN s :
            (i # j /\ s[i] # Undefined /\ s[j] # Undefined)
            => <<Get(s[i]).contract, Get(s[i]).fnSig>> # <<Get(s[j]).contract, Get(s[j]).fnSig>>}

\* one deployment record per contract
DeploymentSeqs(records) ==
    {s \in SeqsUpTo(records, MaxDeployments) :
        \A i, j \in DOMAIN s : i # j => s[i].name # s[j].name}

DEFAULT_CURRENCY_DISPLAY_PRECISION == 2

\* chalk.level as colour detection leaves it when the module is loaded
ChalkLevels == 0 .. 3

Calls1 == <<21000>>

Calls2 == <<21000, 23000>>

\* costs around the smallest unit of the finest precision
Costs ==
    LET unit == getSmallestPrecisionVal(MaxPrecision)
    IN  {Undefined, Some(0), Some(unit - 1), Some(unit), Some(unit + 1)}

(***************************************************************************)
(* Layout: both collections small, every option that shapes the table.     *)
(***************************************************************************)
LayoutMethods ==
    {Some(MethodDataItem(c, <<"a">>, <<>>, g[1], g[2], g[3])) :
        c \in {<<"a">>, <<"B">>},
        g \in {<< <<>>, Undefined, Undefined >>,
               << Calls2, Some(1600), Some(getSmallestPrecisionVal(MaxPrecision)) >>}}

LayoutDeployments ==
    {Deployment(n, g[1], g[2], g[3]) :
        n \in {<<"a">>, <<"B">>},
        g \in {<< <<>>, Undefined, Undefined >>,
               << Calls1, Some(1600), Some(getSmallestPrecisionVal(MaxPrecision)) >>}}

LayoutOptions ==
    [noColors : {FALSE}, outputFile : {FALSE}, L2 : BOOLEAN,
     tokenPrice : BOOLEAN, gasPrice : BOOLEAN,
     showMethodSig : {FALSE}, showUncalledMethods : BOOLEAN,
     currencyDisplayPrecision : {DEFAULT_CURRENCY_DISPLAY_PRECISION}]

Init ==
    /\ data \in [methods : MethodSeqs(LayoutMethods),
                 deployments : DeploymentSeqs(LayoutDeployments)]
    /\ options = Undefined
    /\ chalkLevel \in ChalkLevels
    /\ methodRows = <<>>
    /\ table = <<>>

Next == \E opts \in LayoutOptions : generateTerminalTextTable(opts)

Spec == Init /\ [][Next]_vars

(***************************************************************************)
(* Methods: names that exercise the sort, called and uncalled records,     *)
(* overloads, shown under the method name or the signature.                *)
(***************************************************************************)
SortedMethods ==
    {Some(MethodDataItem(c, m[1], m[2], g, Undefined, Undefined)) :
        c \in {<<"a">>, <<"B">>},
        m \in {<< <<"a">>, <<>> >>, << <<"a">>, <<"a">> >>,
               << <<"B">>, <<>> >>, << <<"_", "a">>, <<>> >>},
        g \in {<<>>, Calls1}}

MethodOptions ==
    [noColors : {FALSE}, outputFile : {FALSE}, L2 : {FALSE},
     tokenPrice : {FALSE}, gasPrice : {FALSE},
     showMethodSig : BOOLEAN, showUncalledMethods : BOOLEAN,
     currencyDisplayPrecision : {DEFAULT_CURRENCY_DISPLAY_PRECISION}]

InitMethods ==
    /\ data \in [methods : MethodSeqs(SortedMethods), deployments : {<<>>}]
    /\ options = Undefined
    /\ chalkLevel \in ChalkLevels
    /\ methodRows = <<>>
    /\ table = <<>>

NextMethods == \E opts \in MethodOptions : generateTerminalTextTable(opts)

SpecMethods == InitMethods /\ [][NextMethods]_vars

(***************************************************************************)
(* Statistics: one collection at a time, every shape of gas data and cost, *)
(* every display precision.                                                *)
(***************************************************************************)
StatsMethods ==
    {Some(MethodDataItem(<<"a">>, m, <<>>, g, Undefined, c)) :
        m \in {<<"a">>, <<"b">>}, g \in {<<>>, Calls1, Calls2}, c \in Costs}

StatsDeployments ==
    {Deployment(n, g, Undefined, c) :
        n \in {<<"a">>, <<"b">>}, g \in {<<>>, Calls1, Calls2}, c \in Costs}

StatsOptions ==
    [noColors : {FALSE}, outputFile : {FALSE}, L2 : {FALSE},
     tokenPrice : {TRUE}, gasPrice : {TRUE},
     showMethodSig : {FALSE}, showUncalledMethods : BOOLEAN,
     currencyDisplayPrecision : 0 .. MaxPrecision]

InitStats ==
    /\ data \in [methods : MethodSeqs(StatsMethods), deployments : {<<>>}]
            \cup [methods : {<<>>}, deployments : DeploymentSeqs(StatsDeployments)]
    /\ options = Undefined
    /\ chalkLevel \in ChalkLevels
    /\ methodRows = <<>>
    /\ table = <<>>

NextStats == \E opts \in StatsOptions : generateTerminalTextTable(opts)

SpecStats == InitStats /\ [][NextStats]_vars

(***************************************************************************)
(* Deployments: every order of records whose names differ in letter and in *)
(* case.                                                                   *)
(***************************************************************************)
OrderedDeployments ==
    {Deployment(n, g, Undefined, Undefined) :
        n \in {<<"a">>, <<"A">>, <<"b">>, <<"B">>}, g \in {<<>>, Calls1}}

DeploymentOptions ==
    [noColors : {FALSE}, outputFile : {FALSE}, L2 : BOOLEAN,
     tokenPrice : {FALSE}, gasPrice : {FALSE},
     showMethodSig : {FALSE}, showUncalledMethods : {FALSE},
     currencyDisplayPrecision : {DEFAULT_CURRENCY_DISPLAY_PRECISION}]

InitDeployments ==
    /\ data \in [methods : {<<>>} \cup {<<m>> : m \in LayoutMethods},
                 deployments : DeploymentSeqs(OrderedDeployments)]
    /\ options = Undefined
    /\ chalkLevel \in ChalkLevels
    /\ methodRows = <<>>
    /\ table = <<>>

NextDeployments == \E opts \in DeploymentOptions : generateTerminalTextTable(opts)

SpecDeployments == InitDeployments /\ [][NextDeployments]_vars

(***************************************************************************)
(* Colours: calls in sequence with every colour option, from every level   *)
(* colour detection can leave.                                             *)
(***************************************************************************)
ColourOptions ==
    [noColors : BOOLEAN, outputFile : BOOLEAN, L2 : BOOLEAN,
     tokenPrice : {FALSE}, gasPrice : {FALSE},
     showMethodSig : {FALSE}, showUncalledMethods : {FALSE},
     currencyDisplayPrecision : {DEFAULT_CURRENCY_DISPLAY_PRECISION}]

InitColours ==
    /\ data \in [methods : {<<>>} \cup {<<m>> : m \in LayoutMethods},
                 deployments : DeploymentSeqs(LayoutDeployments)]
    /\ options = Undefined
    /\ chalkLevel \in ChalkLevels
    /\ methodRows = <<>>
    /\ table = <<>>

NextColours == \E opts \in ColourOptions : generateTerminalTextTable(opts)

SpecColours == InitColours /\ [][NextColours]_vars

(***************************************************************************)
(* Vocabulary of the properties.                                           *)
(***************************************************************************)
Called == options # Undefined

Opts == Get(options)

\* a row is told by the text of its first cell
RowKind(row) == row[1].content.t

RECURSIVE SpanOf(_)
SpanOf(row) == IF row = <<>> THEN 0 ELSE Head(row).colSpan + SpanOf(Tail(row))

IsHeaderSection(sec) == RowKind(sec.row) = "contract"

IsMethodSection(sec) == RowKind(sec.row) = "method"

MinCell(row) == row[2].content

MaxCell(row) == row[3].content

AverageCell(row) == row[4].content

CallsCell(row) == row[Len(row) - 1].content

CostCell(row) == row[Len(row)].content

\* the name a method record is displayed under
Displayed(m) == IF Opts.showMethodSig THEN m.fnSig ELSE m.method

\* the non-null method records of the snapshot that are to be shown
ShownMethods ==
    {i \in DOMAIN data.methods :
        /\ data.methods[i] # Undefined
        /\ (Opts.showUncalledMethods \/ Get(data.methods[i]).numberOfCalls > 0)}

MethodRowIndexes == {i \in DOMAIN methodRows : IsMethodSection(methodRows[i])}

DeploymentRowIndexes == {i \in DOMAIN table : RowKind(table[i]) = "deployment"}

CalledDeployments == {i \in DOMAIN data.deployments : Len(data.deployments[i].gasData) > 0}

\* the sequence s restricted to the indexes in idx, in order
RECURSIVE Pick(_, _, _)
Pick(s, idx, i) ==
    IF i > Len(s) THEN <<>>
    ELSE (IF i \in idx THEN <<s[i]>> ELSE <<>>) \o Pick(s, idx, i + 1)

(***************************************************************************)
(* C1: every row of the emitted table has cell colSpans that sum to 7 when *)
(* options.L2 is undefined and to 8 when it is defined.                    *)
(***************************************************************************)
C1_ColumnTotal ==
    Called => \A i \in DOMAIN table : SpanOf(table[i]) = (IF Opts.L2 THEN 8 ELSE 7)

C1_Witness ==
    /\ Called /\ Opts.L2 /\ Opts.tokenPrice /\ Opts.gasPrice
    /\ \E i \in DOMAIN table : RowKind(table[i]) = "contract"
    /\ \E i \in DOMAIN table : RowKind(table[i]) = "method"
    /\ \E i \in DOMAIN table : RowKind(table[i]) = "Deployments"
    /\ \E i \in DOMAIN table : RowKind(table[i]) = "deployment"

(***************************************************************************)
(* C2: every contract with at least one method row has exactly one         *)
(* contract-header row, placed immediately before the first method row of  *)
(* that contract.                                                          *)
(***************************************************************************)
C2_HeaderBeforeMethods ==
    Called =>
        \A m \in MethodRowIndexes :
            LET c == methodRows[m].contractName
                headers == {h \in DOMAIN methodRows :
                               /\ IsHeaderSection(methodRows[h])
                               /\ methodRows[h].contractName = c}
                first == CHOOSE f \in MethodRowIndexes :
                             /\ methodRows[f].contractName = c
                             /\ \A g \in MethodRowIndexes :
                                    methodRows[g].contractName = c => f <= g
            IN  /\ Cardinality(headers) = 1
                /\ \A h \in headers : h + 1 = first

(***************************************************************************)
(* C3: in every method row and deployment row, if the record's min equals  *)
(* its max (both undefined included) the min and max cells are both the    *)
(* dash placeholder; otherwise they show min and max.                      *)
(***************************************************************************)
MinMaxCellsAsClaimed(rec, row) ==
    IF rec.min = rec.max
    THEN MinCell(row) = Dash /\ MaxCell(row) = Dash
    ELSE MinCell(row) = commify(Get(rec.min)) /\ MaxCell(row) = commify(Get(rec.max))

C3_UniformMinMaxIsDash ==
    Called =>
        /\ \A i \in ShownMethods : \A r \in MethodRowIndexes :
               (/\ methodRows[r].contractName = Get(data.methods[i]).contract
                /\ methodRows[r].methodName = Displayed(Get(data.methods[i])))
               => MinMaxCellsAsClaimed(Get(data.methods[i]), methodRows[r].row)
        /\ \A i \in CalledDeployments : \A r \in DeploymentRowIndexes :
               table[r][1].content.name = data.deployments[i].name
               => MinMaxCellsAsClaimed(data.deployments[i], table[r])

(***************************************************************************)
(* C4: every non-null method record yields exactly one method row if       *)
(* options.showUncalledMethods is true or numberOfCalls > 0, and no row    *)
(* otherwise; a zero-call record that is shown has the dash placeholder in *)
(* its average cell and in its cost cell.                                  *)
(***************************************************************************)
MethodKey(m) == <<m.contract, Displayed(m), m.numberOfCalls>>

SectionKey(sec) == <<sec.contractName, sec.methodName, Get(CallsCell(sec.row).v)>>

C4_OneRowPerShownMethod ==
    Called =>
        /\ Cardinality(MethodRowIndexes) = Cardinality(ShownMethods)
        /\ \A i \in ShownMethods :
               Cardinality({r \in MethodRowIndexes :
                               SectionKey(methodRows[r]) = MethodKey(Get(data.methods[i]))})
               = Cardinality({j \in ShownMethods :
                                 MethodKey(Get(data.methods[j])) = MethodKey(Get(data.methods[i]))})
        /\ \A r \in MethodRowIndexes :
               /\ \E i \in ShownMethods :
                      SectionKey(methodRows[r]) = MethodKey(Get(data.methods[i]))
               /\ CallsCell(methodRows[r].row) = Number(0)
                  => /\ AverageCell(methodRows[r].row) = Dash
                     /\ CostCell(methodRows[r].row) = Dash

C4_Witness ==
    /\ Called /\ Opts.showUncalledMethods
    /\ \E r \in MethodRowIndexes : CallsCell(methodRows[r].row) = Number(0)
    /\ \E r \in MethodRowIndexes : CallsCell(methodRows[r].row) # Number(0)

(***************************************************************************)
(* C5: in every method row and deployment row, with p the currency display *)
(* precision, a numeric cost below 10^-p is shown as the below-precision   *)
(* glyph, a numeric cost of at least 10^-p is shown as that number, and an *)
(* undefined cost is shown as the dash placeholder.                        *)
(***************************************************************************)
CostCellAsClaimed(rec, row) ==
    IF rec.cost = Undefined THEN CostCell(row) = Dash
    ELSE IF Get(rec.cost) < Pow10(CostDigits - Opts.currencyDisplayPrecision)
    THEN CostCell(row) = UNICODE_TRIANGLE
    ELSE CostCell(row) = Number(Get(rec.cost))

C5_CostBelowPrecisionIsGlyph ==
    Called =>
        /\ \A i \in ShownMethods : \A r \in MethodRowIndexes :
               (/\ methodRows[r].contractName = Get(data.methods[i]).contract
                /\ methodRows[r].methodName = Displayed(Get(data.methods[i])))
               => CostCellAsClaimed(Get(data.methods[i]), methodRows[r].row)
        /\ \A i \in CalledDeployments : \A r \in DeploymentRowIndexes :
               table[r][1].content.name = data.deployments[i].name
               => CostCellAsClaimed(data.deployments[i], table[r])

C5_Witness ==
    /\ Called
    /\ Opts.currencyDisplayPrecision = MaxPrecision
    /\ \E i \in ShownMethods :
           /\ Get(data.methods[i]).cost # Undefined
           /\ Get(Get(data.methods[i]).cost) > 0
           /\ Get(Get(data.methods[i]).cost) < Pow10(CostDigits - MaxPrecision)
    /\ \E r \in MethodRowIndexes : CostCell(methodRows[r].row) = UNICODE_TRIANGLE
    /\ \E r \in MethodRowIndexes : CostCell(methodRows[r].row).t = "number"

(***************************************************************************)
(* C6: the deployment rows are exactly the records with at least one call, *)
(* one row each, in ascending order of contract name, whatever the order   *)
(* of the records in the input.                                            *)
(***************************************************************************)
DeploymentRowNames ==
    LET rows == Pick(table, DeploymentRowIndexes, 1)
    IN  [i \in DOMAIN rows |-> rows[i][1].content.name]

C6_DeploymentRowsSorted ==
    Called =>
        /\ \A i, j \in DOMAIN DeploymentRowNames :
               i < j => localeCompare(DeploymentRowNames[i], DeploymentRowNames[j]) < 0
        /\ Range(DeploymentRowNames) = {data.deployments[i].name : i \in CalledDeployments}
        /\ Len(DeploymentRowNames) = Cardinality(CalledDeployments)

C6_Witness ==
    /\ Called
    /\ Len(DeploymentRowNames) = MaxDeployments
    /\ Cardinality(CalledDeployments) = MaxDeployments

(***************************************************************************)
(* C7: a call only reads the snapshot: after the call the method           *)
(* collection and the deployment collection hold the same records in the   *)
(* same order as before the call.                                          *)
(***************************************************************************)
C7_SnapshotOnlyRead ==
    [][data'.methods = data.methods /\ data'.deployments = data.deployments]_vars

(***************************************************************************)
(* C8: after each call the colour level is 0 if the call's options have    *)
(* noColors set or outputFile defined and 1 otherwise, whatever level the  *)
(* earlier calls left.                                                     *)
(***************************************************************************)
C8_ColourLevelFollowsOptions ==
    Called => chalkLevel = (IF Opts.noColors \/ Opts.outputFile THEN 0 ELSE 1)

C8_Witness ==
    Called /\ ~Opts.noColors /\ ~Opts.outputFile /\ chalkLevel = 1

(***************************************************************************)
(* C9 as stated: the method rows are in ascending order of the pair        *)
(* (contract name, displayed name), and their order does not depend on the *)
(* order of the method records in the snapshot.                            *)
(***************************************************************************)
MethodRowsOf(sections) ==
    Pick(sections, {i \in DOMAIN sections : IsMethodSection(sections[i])}, 1)

PairOf(sec) == <<sec.contractName, sec.methodName>>

PairsOf(sections) ==
    LET rows == MethodRowsOf(sections) IN [i \in DOMAIN rows |-> PairOf(rows[i])]

PairsAscending(pairs) ==
    \A i, j \in DOMAIN pairs :
        i < j => \/ localeCompare(pairs[i][1], pairs[j][1]) < 0
                 \/ /\ localeCompare(pairs[i][1], pairs[j][1]) = 0
                    /\ localeCompare(pairs[i][2], pairs[j][2]) <= 0

\* every order the records of the snapshot can be given in
Reorderings(s) == {[i \in DOMAIN s |-> s[f[i]]] : f \in Permutations(DOMAIN s)}

C9_OrderIndependentOfInput ==
    Called =>
        /\ PairsAscending(PairsOf(methodRows))
        /\ \A p \in Reorderings(data.methods) :
               MethodRowsOf(SortSections(MethodSections(p, Opts))) = MethodRowsOf(methodRows)

(***************************************************************************)
(* C9 amended: the method rows are in ascending order of the pair          *)
(* (contract name, displayed name); the sequence of pairs does not depend  *)
(* on the order of the records, and rows with the same pair (overloads     *)
(* displayed under their method name) keep the order of their records in   *)
(* the snapshot.                                                           *)
(***************************************************************************)
ShownWithPair(pair) ==
    LET shown == Pick(data.methods,
                      {i \in ShownMethods :
                          <<Get(data.methods[i]).contract, Displayed(Get(data.methods[i]))>> = pair},
                      1)
    IN  [i \in DOMAIN shown |-> MethodSection(Get(shown[i]), Opts)]

C9_MethodRowsAscending ==
    Called =>
        /\ PairsAscending(PairsOf(methodRows))
        /\ \A p \in Reorderings(data.methods) :
               PairsOf(SortSections(MethodSections(p, Opts))) = PairsOf(methodRows)
        /\ \A r \in MethodRowIndexes :
               Pick(methodRows,
                    {q \in MethodRowIndexes : PairOf(methodRows[q]) = PairOf(methodRows[r])},
                    1)
               = ShownWithPair(PairOf(methodRows[r]))

C9_Witness ==
    /\ Called /\ ~Opts.showMethodSig
    /\ \E q, r \in MethodRowIndexes :
           /\ q < r
           /\ PairOf(methodRows[q]) = PairOf(methodRows[r])
           /\ methodRows[q].row # methodRows[r].row

(***************************************************************************)
(* C10: the rows come in the order title, compiler summary, network        *)
(* summary, methods header, method body rows, deployments subtitle and     *)
(* deployment rows, three key rows; the subtitle is there if and only if a *)
(* deployment record has a call, and every deployment row follows it.      *)
(***************************************************************************)
BodyRowIndexes == {i \in DOMAIN table : RowKind(table[i]) \in {"contract", "method"}}

C10_RowOrder ==
    Called =>
        LET n == Len(table)
            b == Cardinality(BodyRowIndexes)
            d == Cardinality(CalledDeployments)
            s == IF d > 0 THEN 1 ELSE 0
        IN  /\ n = 4 + b + s + d + 3
            /\ RowKind(table[1]) = "Solidity and Network Configuration"
            /\ RowKind(table[2]) = "Solidity: "
            /\ RowKind(table[3]) =
                   (IF Opts.tokenPrice /\ Opts.gasPrice THEN "Network: " ELSE "Methods")
            /\ RowKind(table[4]) = "Contracts / Methods"
            /\ BodyRowIndexes = 5 .. (4 + b)
            /\ [i \in 1 .. b |-> table[4 + i]] = [i \in DOMAIN methodRows |-> methodRows[i].row]
            /\ d > 0 => RowKind(table[5 + b]) = "Deployments"
            /\ {i \in DOMAIN table : RowKind(table[i]) = "Deployments"} = (5 + b) .. (4 + b + s)
            /\ DeploymentRowIndexes = (5 + b + s) .. (4 + b + s + d)
            /\ RowKind(table[n - 2]) = "Key"
            /\ RowKind(table[n - 1]) = "UNICODE_CIRCLE intrinsicMsg"
            /\ RowKind(table[n]) = "UNICODE_TRIANGLE nonZeroMsg"

C10_Witness ==
    /\ Called
    /\ BodyRowIndexes # {}
    /\ DeploymentRowIndexes # {}
    /\ \E i \in DOMAIN data.deployments : Len(data.deployments[i].gasData) = 0

====
